---- MODULE Spec2Model ----
(***************************************************************************)
(* Authentication and session subsystem of the contacts API.               *)
(*                                                                         *)
(* The durable user store (the users table), the Redis cache in front of   *)
(* it and the clock are shared state.  A request is a process in a slot:   *)
(* a handler that touches the store twice (read the user, then commit a    *)
(* new refresh token) is two steps, so that two requests served by         *)
(* different workers against the same store can interleave between one     *)
(* request's read and its commit.                                          *)
(*                                                                         *)
(* A JWT is the signed serialisation of its claims; jwt.encode is          *)
(* deterministic and python-jose stores iat and exp as whole seconds, so   *)
(* two tokens with the same subject, scope and second of issue are the     *)
(* same string.  A token is therefore modelled by its claims record.       *)
(***************************************************************************)
EXTENDS Integers, FiniteSets, Sequences, TLC

VARIABLES
    users,       \* the users table: email -> row, NoUser where there is none
    cache,       \* Redis: email -> the pickled row under user:<email>
    now,         \* the clock, in seconds
    req,         \* the requests being served and the last response of each slot
    issued,      \* history: the tokens handed to clients so far
    superseded,  \* history: refresh tokens issued before a later issuance to the same principal
    ticks,       \* history: how often the clock has advanced
    started,     \* history: how many requests have been received
    contacts,    \* the contacts table: id -> row, NoContact where there is none
    creq,        \* the last request served by the contacts router, with its response
    fcall        \* a function under evaluation: its arguments and its result

\* The variables of the contacts router and of the functions evaluated alone.
contactVars == <<contacts, creq, fcall>>

vars == <<users, cache, now, req, issued, superseded, ticks, started, contactVars>>

-----------------------------------------------------------------------------
(* Bounds of the model *)

MaxTicks == 1
MaxRequests == 5
\* Requests served in the specification of the cache.
MaxCacheRequests == 3
\* Longest list of allowed roles given to RoleAccess.
MaxAllowed == 3
\* Clock readings and explicit lifetimes given to the token functions.
MaxClock == 2
MaxDelta == 2

Emails == {"a@x.ua", "b@x.ua"}
\* Passwords a client may type; accounts are registered with the first.
Passwords == {"pw1", "pw2"}
SignupPasswords == {"pw1"}
\* Two requests can be in service at once.
Slots == {1, 2}

-----------------------------------------------------------------------------
(* Program constants *)

AccessTokenMinutes == 15
RefreshTokenDays == 7
EmailTokenDays == 7
CacheTTL == 900

SecondsPerMinute == 60
SecondsPerDay == 86400

HTTP_200_OK == 200
HTTP_201_CREATED == 201
HTTP_204_NO_CONTENT == 204
HTTP_400_BAD_REQUEST == 400
HTTP_401_UNAUTHORIZED == 401
HTTP_403_FORBIDDEN == 403
HTTP_404_NOT_FOUND == 404
HTTP_409_CONFLICT == 409
HTTP_422_UNPROCESSABLE_ENTITY == 422
HTTP_500_INTERNAL_SERVER_ERROR == 500

\* The clock advances by one second, by exactly an access-token lifetime (the
\* time to live of a cache entry too), or to just past a refresh-token lifetime.
TickSteps ==
    {1, AccessTokenMinutes * SecondsPerMinute, RefreshTokenDays * SecondsPerDay + 1}

-----------------------------------------------------------------------------
(* Tokens *)

\* Python's None in a place that holds a token.
NoToken == [sub |-> "", iat |-> 0, exp |-> 0, scope |-> "none"]

\* A string that is no JWT signed with SECRET_KEY (malformed or forged).
GarbageToken == [sub |-> "", iat |-> 0, exp |-> 0, scope |-> "garbage"]

\* The optional argument expires_delta: <<>> is None, <<d>> is d seconds.
NoDelta == <<>>

\* Python's truth value of expires_delta: None and 0 are false.
truthy(expires_delta) == expires_delta # <<>> /\ expires_delta[1] # 0

\* The claims of a token.  The code reads the clock twice: expire is made
\* from the first reading t_exp, iat is the second reading t_iat.
access_token_claims(sub, t_exp, t_iat, expires_delta) ==
    [sub |-> sub, iat |-> t_iat,
     exp |-> IF truthy(expires_delta)
             THEN t_exp + expires_delta[1]
             ELSE t_exp + AccessTokenMinutes * SecondsPerMinute,
     scope |-> "access_token"]

\* A refresh token whose scope is written "refresh".
refresh_token_claims_short_scope(sub, t_exp, t_iat, expires_delta) ==
    [sub |-> sub, iat |-> t_iat,
     exp |-> IF truthy(expires_delta)
             THEN t_exp + expires_delta[1]
             ELSE t_exp + RefreshTokenDays * SecondsPerDay,
     scope |-> "refresh"]

refresh_token_claims(sub, t_exp, t_iat, expires_delta) ==
    [sub |-> sub, iat |-> t_iat,
     exp |-> IF truthy(expires_delta)
             THEN t_exp + expires_delta[1]
             ELSE t_exp + RefreshTokenDays * SecondsPerDay,
     scope |-> "refresh_token"]

email_token_claims(sub, t_exp, t_iat) ==
    [sub |-> sub, iat |-> t_iat, exp |-> t_exp + EmailTokenDays * SecondsPerDay,
     scope |-> "email_token"]

\* The token made by a request: both readings fall in the second t.
create_access_token(sub, t, expires_delta) ==
    access_token_claims(sub, t, t, expires_delta)

create_refresh_token(sub, t, expires_delta) ==
    refresh_token_claims(sub, t, t, expires_delta)

create_email_token(sub, t) == email_token_claims(sub, t, t)

\* jwt.decode: raises JWTError on a bad signature and on exp < now.
jwt_decode_ok(tok, t) ==
    /\ tok.scope \notin {"garbage", "none"}
    /\ ~(tok.exp < t)

-----------------------------------------------------------------------------
(* Passwords *)

get_password_hash(p) == <<"bcrypt", p>>

\* A comparison of the plain password with the stored digest.
verify_password_plain(plain, hashed) == hashed = <<plain>>

verify_password(plain, hashed) == hashed = get_password_hash(plain)

-----------------------------------------------------------------------------
(* The users table *)

\* Python's None in a place that holds a User row.
NoUser == [exists |-> FALSE, email |-> "", password |-> <<>>,
           confirmed |-> FALSE, refresh_token |-> NoToken]

get_user_by_email(email) ==
    IF email \in Emails THEN users[email] ELSE NoUser

\* The values the users table gives the columns that create_user does not
\* set (database/models.py): confirmed is False and refresh_token is NULL.
UserColumnDefaults == [confirmed |-> FALSE, refresh_token |-> NoToken]

create_user(email, hashed) ==
    [exists |-> TRUE, email |-> email, password |-> hashed,
     confirmed |-> UserColumnDefaults.confirmed,
     refresh_token |-> UserColumnDefaults.refresh_token]

\* An update that fills an empty column and never overwrites a token.
update_token_keeps_first(email, tok) ==
    IF users[email].refresh_token = NoToken
    THEN [users EXCEPT ![email].refresh_token = tok]
    ELSE users

\* user.refresh_token = refresh_token; db.commit(): an UPDATE of that column
\* of the row the session loaded.
update_token(email, tok) ==
    [users EXCEPT ![email].refresh_token = tok]

\* An UPDATE without its WHERE clause: every row is confirmed.
repo_confirmed_email_all(email) ==
    [e \in Emails |-> IF users[e].exists THEN [users[e] EXCEPT !.confirmed = TRUE]
                                        ELSE users[e]]

repo_confirmed_email(email) ==
    [users EXCEPT ![email].confirmed = TRUE]

-----------------------------------------------------------------------------
(* The cache *)

\* A key of Redis: its value, whether it has a time to live and when that ends.
\* set_at is history: when the value was written.
NoEntry == [present |-> FALSE, user |-> NoUser, ttl |-> FALSE, expire_at |-> 0,
            set_at |-> 0]

\* A read of Redis that finds no key.
cache_get_miss(email) == NoUser

cache_get(email) ==
    IF email \in Emails /\ cache[email].present THEN cache[email].user ELSE NoUser

\* r.set(key, value): the key holds the value and has no time to live.
cache_set(c, email, user, t) ==
    [c EXCEPT ![email] = [present |-> TRUE, user |-> user, ttl |-> FALSE,
                          expire_at |-> 0, set_at |-> t]]

\* r.expire(key, 900): the time to live counts from this call; no effect on a
\* key that does not exist.
cache_expire(c, email, t) ==
    IF c[email].present
    THEN [c EXCEPT ![email].ttl = TRUE, ![email].expire_at = t + CacheTTL]
    ELSE c

\* r.set followed by r.expire(key, 900)
cache_put(email, user, t) ==
    cache_expire(cache_set(cache, email, user, t), email, t)

\* Redis drops a key once its time to live has passed.
cache_evict(c, t) ==
    [e \in Emails |->
        IF c[e].present /\ c[e].ttl /\ c[e].expire_at <= t THEN NoEntry ELSE c[e]]

-----------------------------------------------------------------------------
(* Requests and responses *)

NoResp == [status |-> 0, detail |-> "", access_token |-> NoToken,
           refresh_token |-> NoToken, token_type |-> "", user |-> NoUser]

HTTPException(status, detail) ==
    [NoResp EXCEPT !.status = status, !.detail = detail]

TokenModel(access, refresh) ==
    [NoResp EXCEPT !.status = HTTP_200_OK, !.access_token = access,
                   !.refresh_token = refresh, !.token_type = "bearer"]

\* A slot: the request it serves (op, its inputs, the row it read, its place
\* pc in the handler) and, once pc = "done", the response it sent.  peers are
\* the slots whose request was in service when this one arrived; stale tells
\* whether the token presented had already been superseded when it was
\* presented; log lists the calls made to Redis and to the database session
\* by a handler that is followed call by call.
Idle == [op |-> "none", pc |-> "idle", email |-> "", password |-> "",
         token |-> NoToken, user |-> NoUser, peers |-> {}, stale |-> FALSE,
         log |-> <<>>, resp |-> NoResp]

InFlight(i) == req[i].pc \notin {"idle", "done"}

Begin(i, op, email, password, token) ==
    [Idle EXCEPT !.op = op, !.email = email, !.password = password,
                 !.token = token,
                 !.stale = token \in superseded,
                 !.peers = {j \in Slots \ {i} : InFlight(j)}]

\* Slot i takes the request r; the request it served before is no peer of
\* any other request any more.
Serve(i, r) ==
    [j \in Slots |-> IF j = i THEN r ELSE [req[j] EXCEPT !.peers = @ \ {i}]]

Done(r, resp) == [r EXCEPT !.pc = "done", !.resp = resp]

\* A request is served by the first slot that serves none.
CanStart(i) ==
    /\ ~InFlight(i)
    /\ \A j \in Slots : j < i => InFlight(j)
    /\ started < MaxRequests

\* Tokens a client can present: those handed out so far, or a forged string.
Presentable == issued \cup {GarbageToken}

\* The refresh tokens handed out so far for one principal.
RefreshTokensOf(email) ==
    {t \in issued : t.scope = "refresh_token" /\ t.sub = email}

-----------------------------------------------------------------------------
(* services/auth.py: the token consumers *)

credentials_exception == HTTPException(HTTP_401_UNAUTHORIZED, "Could not validate credentials")

\* decode_refresh_token without its test of the scope.
decode_refresh_token_any_scope(tok, t) ==
    IF ~jwt_decode_ok(tok, t)
    THEN HTTPException(HTTP_401_UNAUTHORIZED, "Could not validate credentials")
    ELSE NoResp

\* The exception decode_refresh_token raises, NoResp when it returns payload['sub'].
decode_refresh_token(tok, t) ==
    IF ~jwt_decode_ok(tok, t)
    THEN HTTPException(HTTP_401_UNAUTHORIZED, "Could not validate credentials")
    ELSE IF tok.scope = "refresh_token"
    THEN NoResp
    ELSE HTTPException(HTTP_401_UNAUTHORIZED, "Invalid scope for token")

\* What decode_refresh_token returns when it does not raise: payload['sub'];
\* "" when it raises.
decode_refresh_token_sub(tok, t) ==
    IF decode_refresh_token(tok, t) = NoResp THEN tok.sub ELSE ""

\* The exception get_email_from_token raises, NoResp when it returns normally.
get_email_from_token_raises(tok, t) ==
    IF ~jwt_decode_ok(tok, t)
    THEN HTTPException(HTTP_422_UNPROCESSABLE_ENTITY, "Invalid token for email verification")
    ELSE NoResp

\* What get_email_from_token returns when it does not raise: payload['sub'],
\* or None ("") when the function falls off its end.
get_email_from_token(tok) ==
    IF tok.scope = "email_token" THEN tok.sub ELSE ""

\* The first part of get_current_user: the subject of the token, or "" when
\* credentials_exception is raised before the cache is read.
get_current_user_subject(tok, t) ==
    IF ~jwt_decode_ok(tok, t) THEN ""
    ELSE IF tok.scope = "access_token" THEN tok.sub
    ELSE ""

-----------------------------------------------------------------------------
(* services/roles.py and the contacts table *)

\* The members of the enumeration Role named by the routes.
Roles == {"admin", "moderator", "user"}

\* Python's None in the place of current_user: get_current_user has raised.
NoPrincipal == [exists |-> FALSE, roles |-> ""]

\* The User that get_current_user returned, as RoleAccess reads it.
Principal(role) == [exists |-> TRUE, roles |-> role]

CurrentUsers == {NoPrincipal} \cup {Principal(r) : r \in Roles}

\* x in xs, for a Python list xs.
InList(x, xs) == \E k \in 1..Len(xs) : xs[k] = x

\* A gate in which admin passes everywhere and moderator passes where user does.
RoleAccess_hierarchy(allowed_roles, current_user) ==
    IF \/ InList(current_user.roles, allowed_roles)
       \/ current_user.roles = "admin"
       \/ current_user.roles = "moderator" /\ InList("user", allowed_roles)
    THEN NoResp
    ELSE HTTPException(HTTP_403_FORBIDDEN, "Operation forbidden")

\* RoleAccess(allowed_roles).__call__: the exception raised, NoResp when the
\* call returns.
RoleAccess(allowed_roles, current_user) ==
    IF ~InList(current_user.roles, allowed_roles)
    THEN HTTPException(HTTP_403_FORBIDDEN, "Operation forbidden")
    ELSE NoResp

allowed_operation_get == <<"admin", "moderator", "user">>
allowed_operation_create == <<"admin", "moderator", "user">>
allowed_operation_update == <<"admin", "moderator">>
allowed_operation_remove == <<"admin">>

ContactIds == {1, 2}
ContactEmails == {"c@x.ua", "d@x.ua"}
FirstNames == {"Ann", "Bob"}
Notes == {"", "vip"}
LastNames == {"Doe"}
PhoneNumbers == {"+380 (44) 1234567"}
\* Dates are <<year, month, day>>.
BirthDates == {<<1990, 11, 11>>, <<2023, 11, 11>>}

\* Python's None in a place that holds a Contact row.  Of the columns of a
\* row the model keeps the id, the columns that update leaves alone
\* (first_name, last_name, phone_number) and those it writes (email,
\* additional_data, birth_date); created_at and updated_at are left out.
NoContact == [exists |-> FALSE, id |-> 0, first_name |-> "", last_name |-> "",
              email |-> "", phone_number |-> "", birth_date |-> <<>>,
              additional_data |-> ""]

\* The bodies a client can send (ContactBase).
ContactBodies ==
    [id : ContactIds, first_name : FirstNames, last_name : LastNames,
     email : ContactEmails, phone_number : PhoneNumbers,
     birth_date : BirthDates, additional_data : Notes]

\* A row made without the note of the body.
Contact_without_additional_data(body) ==
    [exists |-> TRUE, id |-> body.id, first_name |-> body.first_name,
     last_name |-> body.last_name, email |-> body.email,
     phone_number |-> body.phone_number, birth_date |-> body.birth_date,
     additional_data |-> ""]

\* Contact(**body.model_dump())
Contact(body) ==
    [exists |-> TRUE, id |-> body.id, first_name |-> body.first_name,
     last_name |-> body.last_name, email |-> body.email,
     phone_number |-> body.phone_number, birth_date |-> body.birth_date,
     additional_data |-> body.additional_data]

get_contact_by_id(id) == contacts[id]

get_contact_by_email(email) ==
    IF \E k \in ContactIds : contacts[k].exists /\ contacts[k].email = email
    THEN contacts[CHOOSE k \in ContactIds :
                     contacts[k].exists /\ contacts[k].email = email]
    ELSE NoContact

\* The primary key of the contacts table (database/models.py): the commit of
\* an INSERT raises IntegrityError when a row with the id is in the table.
contacts_pkey(id) == ~contacts[id].exists

\* The table after repository create.
repo_create(body) ==
    IF contacts_pkey(body.id) THEN [contacts EXCEPT ![body.id] = Contact(body)]
    ELSE contacts

\* An update that writes every column of the body but the id.
repo_update_every_column(id, body) ==
    IF contacts[id].exists
    THEN [contacts EXCEPT ![id] = [Contact(body) EXCEPT !.id = id]]
    ELSE contacts

\* The table after repository update: email, additional_data and birth_date
\* of the row are those of the body.
repo_update(id, body) ==
    IF contacts[id].exists
    THEN [contacts EXCEPT ![id].email = body.email,
                          ![id].additional_data = body.additional_data,
                          ![id].birth_date = body.birth_date]
    ELSE contacts

\* A remove that empties the table.
repo_remove_all(id) ==
    IF contacts[id].exists THEN [k \in ContactIds |-> NoContact] ELSE contacts

\* The table after repository remove.
repo_remove(id) ==
    IF contacts[id].exists THEN [contacts EXCEPT ![id] = NoContact] ELSE contacts

NoContactRequest == [op |-> "none", current_user |-> NoPrincipal, id |-> 0,
                     resp |-> NoResp, contact |-> NoContact]

NoCall == [fn |-> "none"]

-----------------------------------------------------------------------------
(* routes/auth.py *)

\* The checks of login without the test of the confirmed flag.
login_checks_skip_confirmed(user, password) ==
    IF ~user.exists
    THEN HTTPException(HTTP_401_UNAUTHORIZED, "Invalid email")
    ELSE IF ~verify_password(password, user.password)
    THEN HTTPException(HTTP_401_UNAUTHORIZED, "Invalid password")
    ELSE NoResp

\* The checks of login without the verification of the password.
login_checks_skip_password(user, password) ==
    IF ~user.exists
    THEN HTTPException(HTTP_401_UNAUTHORIZED, "Invalid email")
    ELSE IF ~user.confirmed
    THEN HTTPException(HTTP_401_UNAUTHORIZED, "Email not confirmad")
    ELSE NoResp

\* The checks of login with the password verified before the confirmed flag.
login_checks_password_first(user, password) ==
    IF ~user.exists
    THEN HTTPException(HTTP_401_UNAUTHORIZED, "Invalid email")
    ELSE IF ~verify_password(password, user.password)
    THEN HTTPException(HTTP_401_UNAUTHORIZED, "Invalid password")
    ELSE IF ~user.confirmed
    THEN HTTPException(HTTP_401_UNAUTHORIZED, "Email not confirmad")
    ELSE NoResp

\* The checks of login before the tokens are made: the exception raised,
\* NoResp when all pass.
login_checks(user, password) ==
    IF ~user.exists
    THEN HTTPException(HTTP_401_UNAUTHORIZED, "Invalid email")
    ELSE IF ~user.confirmed
    THEN HTTPException(HTTP_401_UNAUTHORIZED, "Email not confirmad")
    ELSE IF ~verify_password(password, user.password)
    THEN HTTPException(HTTP_401_UNAUTHORIZED, "Invalid password")
    ELSE NoResp

\* The calls login makes, in order, until it raises or has passed its checks.
login_calls(user, password) ==
    IF ~user.exists \/ ~user.confirmed
    THEN <<"get_user_by_email">>
    ELSE <<"get_user_by_email", "verify_password">>

\* A comparison of the subjects alone.
refresh_mismatch_by_subject(user, tok) == user.refresh_token.sub # tok.sub

\* user.refresh_token != token
refresh_mismatch(user, tok) == user.refresh_token # tok

\* The background task send_email (services/email.py): the verification
\* token it mails to the address.
send_email(email, t) == create_email_token(email, t)

Signup(i) ==
    \E email \in Emails, password \in SignupPasswords :
        /\ CanStart(i)
        /\ LET r == Begin(i, "signup", email, password, NoToken)
               exist_user == get_user_by_email(email)
           IN IF exist_user.exists
              THEN /\ req' = Serve(i,
                                Done(r, HTTPException(HTTP_409_CONFLICT, "Account already exists")))
                   /\ UNCHANGED <<users, issued>>
              ELSE LET new_user == create_user(email, get_password_hash(password))
                   IN /\ users' = [users EXCEPT ![email] = new_user]
                      /\ issued' = issued \cup {send_email(email, now)}
                      /\ req' = Serve(i,
                                   Done(r, [NoResp EXCEPT !.status = HTTP_201_CREATED,
                                                          !.user = new_user]))
        /\ started' = started + 1
        /\ UNCHANGED <<cache, now, ticks, superseded, contactVars>>

LoginRead(i) ==
    \E email \in Emails, password \in Passwords :
        /\ CanStart(i)
        /\ LET user == get_user_by_email(email)
               r == [Begin(i, "login", email, password, NoToken) EXCEPT
                        !.log = login_calls(user, password)]
               err == login_checks(user, password)
           IN req' = Serve(i,
                        IF err # NoResp THEN Done(r, err)
                        ELSE [r EXCEPT !.pc = "login_commit", !.user = user])
        /\ started' = started + 1
        /\ UNCHANGED <<users, cache, issued, superseded, now, ticks, contactVars>>

LoginCommit(i) ==
    /\ req[i].pc = "login_commit"
    /\ LET email == req[i].user.email
           access_token == create_access_token(email, now, NoDelta)
           refresh_token == create_refresh_token(email, now, NoDelta)
       IN /\ users' = update_token(email, refresh_token)
          /\ issued' = issued \cup {access_token, refresh_token}
          /\ superseded' = superseded \cup RefreshTokensOf(email)
          /\ req' = [req EXCEPT ![i] = Done(req[i], TokenModel(access_token, refresh_token))]
    /\ UNCHANGED <<cache, now, ticks, started, contactVars>>

RefreshRead(i) ==
    \E tok \in Presentable :
        /\ CanStart(i)
        /\ LET r == Begin(i, "refresh", "", "", tok)
               err == decode_refresh_token(tok, now)
               user == get_user_by_email(tok.sub)
           IN req' = Serve(i,
                        IF err # NoResp THEN Done(r, err)
                        ELSE IF ~user.exists
                        \* user is None: user.refresh_token raises AttributeError
                        THEN Done(r, HTTPException(HTTP_500_INTERNAL_SERVER_ERROR,
                                                   "Internal Server Error"))
                        ELSE IF refresh_mismatch(user, tok)
                        THEN [r EXCEPT !.pc = "refresh_clear", !.email = tok.sub, !.user = user]
                        ELSE [r EXCEPT !.pc = "refresh_commit", !.email = tok.sub, !.user = user])
        /\ started' = started + 1
        /\ UNCHANGED <<users, cache, issued, superseded, now, ticks, contactVars>>

RefreshClear(i) ==
    /\ req[i].pc = "refresh_clear"
    /\ users' = update_token(req[i].email, NoToken)
    /\ req' = [req EXCEPT ![i] =
                 Done(req[i], HTTPException(HTTP_401_UNAUTHORIZED, "Invalid refresh token"))]
    /\ UNCHANGED <<cache, issued, superseded, now, ticks, started, contactVars>>

RefreshCommit(i) ==
    /\ req[i].pc = "refresh_commit"
    /\ LET email == req[i].email
           access_token == create_access_token(email, now, NoDelta)
           refresh_token == create_refresh_token(email, now, NoDelta)
       IN /\ users' = update_token(email, refresh_token)
          /\ issued' = issued \cup {access_token, refresh_token}
          /\ superseded' = superseded \cup RefreshTokensOf(email)
          /\ req' = [req EXCEPT ![i] = Done(req[i], TokenModel(access_token, refresh_token))]
    /\ UNCHANGED <<cache, now, ticks, started, contactVars>>

ConfirmedEmail(i) ==
    \E tok \in Presentable :
        /\ CanStart(i)
        /\ LET r == Begin(i, "confirmed_email", "", "", tok)
               err == get_email_from_token_raises(tok, now)
               email == get_email_from_token(tok)
               user == get_user_by_email(email)
           IN IF err # NoResp
              THEN /\ req' = Serve(i, Done(r, err))
                   /\ UNCHANGED users
              ELSE IF ~user.exists
              THEN /\ req' = Serve(i,
                                Done(r, HTTPException(HTTP_400_BAD_REQUEST, "Verification error")))
                   /\ UNCHANGED users
              ELSE IF user.confirmed
              THEN /\ req' = Serve(i,
                                Done([r EXCEPT !.email = email],
                                     [NoResp EXCEPT !.status = HTTP_200_OK,
                                                    !.detail = "Your email is already confirmed"]))
                   /\ UNCHANGED users
              ELSE /\ users' = repo_confirmed_email(email)
                   /\ req' = Serve(i,
                                Done([r EXCEPT !.email = email],
                                     [NoResp EXCEPT !.status = HTTP_200_OK,
                                                    !.detail = "Email confirmed"]))
        /\ started' = started + 1
        /\ UNCHANGED <<cache, issued, superseded, now, ticks, contactVars>>

\* A get_current_user that turns away a principal without a stored refresh
\* token.
GetCurrentUser_needs_session(i) ==
    \E tok \in Presentable :
        /\ CanStart(i)
        /\ LET r == Begin(i, "get_current_user", "", "", tok)
               email == get_current_user_subject(tok, now)
               cached == cache_get(email)
               user == get_user_by_email(email)
           IN IF email = ""
              THEN /\ req' = Serve(i, Done(r, credentials_exception))
                   /\ UNCHANGED cache
              ELSE IF cached.exists
              THEN /\ req' = Serve(i,
                                Done([r EXCEPT !.email = email],
                                     [NoResp EXCEPT !.status = HTTP_200_OK, !.user = cached]))
                   /\ UNCHANGED cache
              ELSE IF ~user.exists \/ user.refresh_token = NoToken
              THEN /\ req' = Serve(i, Done(r, credentials_exception))
                   /\ UNCHANGED cache
              ELSE /\ cache' = cache_put(email, user, now)
                   /\ req' = Serve(i,
                                Done([r EXCEPT !.email = email],
                                     [NoResp EXCEPT !.status = HTTP_200_OK, !.user = user]))
        /\ started' = started + 1
        /\ UNCHANGED <<users, issued, superseded, now, ticks, contactVars>>

GetCurrentUser(i) ==
    \E tok \in Presentable :
        /\ CanStart(i)
        /\ LET r == Begin(i, "get_current_user", "", "", tok)
               email == get_current_user_subject(tok, now)
               cached == cache_get(email)
               user == get_user_by_email(email)
           IN IF email = ""
              THEN /\ req' = Serve(i, Done(r, credentials_exception))
                   /\ UNCHANGED cache
              ELSE IF cached.exists
              THEN /\ req' = Serve(i,
                                Done([r EXCEPT !.email = email],
                                     [NoResp EXCEPT !.status = HTTP_200_OK, !.user = cached]))
                   /\ UNCHANGED cache
              ELSE IF ~user.exists
              THEN /\ req' = Serve(i, Done(r, credentials_exception))
                   /\ UNCHANGED cache
              ELSE /\ cache' = cache_put(email, user, now)
                   /\ req' = Serve(i,
                                Done([r EXCEPT !.email = email],
                                     [NoResp EXCEPT !.status = HTTP_200_OK, !.user = user]))
        /\ started' = started + 1
        /\ UNCHANGED <<users, issued, superseded, now, ticks, contactVars>>

Tick ==
    /\ ticks < MaxTicks
    /\ \E d \in TickSteps :
          /\ now' = now + d
          /\ cache' = cache_evict(cache, now + d)
    /\ ticks' = ticks + 1
    /\ UNCHANGED <<users, issued, superseded, started, req, contactVars>>

-----------------------------------------------------------------------------

Init ==
    /\ users = [e \in Emails |-> NoUser]
    /\ cache = [e \in Emails |-> NoEntry]
    /\ issued = {}
    /\ superseded = {}
    /\ now = 0
    /\ ticks = 0
    /\ started = 0
    /\ req = [i \in Slots |-> Idle]
    /\ contacts = [k \in ContactIds |-> NoContact]
    /\ creq = NoContactRequest
    /\ fcall = NoCall

Next ==
    \/ \E i \in Slots : Signup(i)
    \/ \E i \in Slots : LoginRead(i)
    \/ \E i \in Slots : LoginCommit(i)
    \/ \E i \in Slots : RefreshRead(i)
    \/ \E i \in Slots : RefreshClear(i)
    \/ \E i \in Slots : RefreshCommit(i)
    \/ \E i \in Slots : ConfirmedEmail(i)
    \/ \E i \in Slots : GetCurrentUser(i)
    \/ Tick

Spec == Init /\ [][Next]_vars

-----------------------------------------------------------------------------
(* get_current_user followed call by call: the read of Redis, the query of  *)
(* the users table, r.set and r.expire are four calls, and the requests of  *)
(* other workers can be served between any two of them.                     *)

\* The account the cache specification starts with.
SeedEmail == "a@x.ua"
\* An address that has no row when the cache specification starts.
OrphanEmail == "b@x.ua"

Logged(r, call) == [r EXCEPT !.log = Append(@, call)]

GetCurrentUserBegin(i) ==
    \E tok \in Presentable :
        /\ CanStart(i)
        /\ LET r == Begin(i, "get_current_user", "", "", tok)
               email == get_current_user_subject(tok, now)
               cached == cache_get(email)
           IN req' = Serve(i,
                        IF email = "" THEN Done(r, credentials_exception)
                        ELSE IF cached.exists
                        THEN Done(Logged([r EXCEPT !.email = email, !.user = cached], "r.get"),
                                  [NoResp EXCEPT !.status = HTTP_200_OK, !.user = cached])
                        ELSE Logged([r EXCEPT !.pc = "gcu_store", !.email = email], "r.get"))
        /\ started' = started + 1
        /\ UNCHANGED <<users, cache, issued, superseded, now, ticks, contactVars>>

\* The query of the users table with negative caching: a subject without a
\* row is written to Redis as None.
GetCurrentUserStore_caches_miss(i) ==
    /\ req[i].pc = "gcu_store"
    /\ LET user == get_user_by_email(req[i].email)
           r == Logged(req[i], "get_user_by_email")
       IN IF ~user.exists
          THEN /\ req' = [req EXCEPT ![i] = Done(r, credentials_exception)]
               /\ cache' = cache_put(req[i].email, NoUser, now)
          ELSE /\ req' = [req EXCEPT ![i] = [r EXCEPT !.pc = "gcu_set", !.user = user]]
               /\ UNCHANGED cache
    /\ UNCHANGED <<users, issued, superseded, now, ticks, started, contactVars>>

GetCurrentUserStore(i) ==
    /\ req[i].pc = "gcu_store"
    /\ LET user == get_user_by_email(req[i].email)
           r == Logged(req[i], "get_user_by_email")
       IN req' = [req EXCEPT ![i] =
                    IF ~user.exists THEN Done(r, credentials_exception)
                    ELSE [r EXCEPT !.pc = "gcu_set", !.user = user]]
    /\ UNCHANGED <<users, cache, issued, superseded, now, ticks, started, contactVars>>

GetCurrentUserSet(i) ==
    /\ req[i].pc = "gcu_set"
    /\ cache' = cache_set(cache, req[i].email, req[i].user, now)
    /\ req' = [req EXCEPT ![i] = Logged([req[i] EXCEPT !.pc = "gcu_expire"], "r.set")]
    /\ UNCHANGED <<users, issued, superseded, now, ticks, started, contactVars>>

GetCurrentUserExpire(i) ==
    /\ req[i].pc = "gcu_expire"
    /\ cache' = cache_expire(cache, req[i].email, now)
    /\ req' = [req EXCEPT ![i] =
                 Done(Logged(req[i], "r.expire"),
                      [NoResp EXCEPT !.status = HTTP_200_OK, !.user = req[i].user])]
    /\ UNCHANGED <<users, issued, superseded, now, ticks, started, contactVars>>

\* The request ends between r.set and r.expire: the connection to Redis is
\* lost and r.expire raises, or the worker is stopped.
GetCurrentUserStops(i) ==
    /\ req[i].pc = "gcu_expire"
    /\ req' = [req EXCEPT ![i] =
                 Done(req[i], HTTPException(HTTP_500_INTERNAL_SERVER_ERROR,
                                            "Internal Server Error"))]
    /\ UNCHANGED <<users, cache, issued, superseded, now, ticks, started, contactVars>>

\* The service with one account that has signed up with the first password,
\* confirmed its address and logged in, all within the second 0.  A client
\* still holds an access token for an address whose row is no longer in the
\* table (the tables were created anew; SECRET_KEY stayed the same).
InitCache ==
    /\ users = [e \in Emails |->
                  IF e = SeedEmail
                  THEN [create_user(e, get_password_hash("pw1")) EXCEPT
                           !.confirmed = TRUE,
                           !.refresh_token = create_refresh_token(e, 0, NoDelta)]
                  ELSE NoUser]
    /\ cache = [e \in Emails |-> NoEntry]
    /\ issued = {create_access_token(SeedEmail, 0, NoDelta),
                 create_refresh_token(SeedEmail, 0, NoDelta),
                 create_access_token(OrphanEmail, 0, NoDelta)}
    /\ superseded = {}
    /\ now = 0
    /\ ticks = 0
    /\ started = 0
    /\ req = [i \in Slots |-> Idle]
    /\ contacts = [k \in ContactIds |-> NoContact]
    /\ creq = NoContactRequest
    /\ fcall = NoCall

\* The cache specification serves MaxCacheRequests requests.
CacheArrival == started < MaxCacheRequests

NextCache ==
    \/ CacheArrival /\ \E i \in Slots : GetCurrentUserBegin(i)
    \/ \E i \in Slots : GetCurrentUserStore(i)
    \/ \E i \in Slots : GetCurrentUserSet(i)
    \/ \E i \in Slots : GetCurrentUserExpire(i)
    \/ \E i \in Slots : GetCurrentUserStops(i)
    \/ CacheArrival /\ \E i \in Slots : Signup(i)
    \/ CacheArrival /\ \E i \in Slots : ConfirmedEmail(i)
    \/ CacheArrival /\ \E i \in Slots : LoginRead(i)
    \/ \E i \in Slots : LoginCommit(i)
    \/ CacheArrival /\ \E i \in Slots : RefreshRead(i)
    \/ \E i \in Slots : RefreshClear(i)
    \/ \E i \in Slots : RefreshCommit(i)
    \/ Tick

SpecCache == InitCache /\ [][NextCache]_vars

-----------------------------------------------------------------------------
(* The confirmation mail: signup, request_email and confirmed_email.        *)

\* The message request_email answers with, given the row it found.
request_email(user) ==
    IF user.exists /\ user.confirmed
    THEN [NoResp EXCEPT !.status = HTTP_200_OK,
                        !.detail = "Your email is already confirmed"]
    ELSE [NoResp EXCEPT !.status = HTTP_200_OK,
                        !.detail = "Check your email for confirmation."]

RequestEmail(i) ==
    \E email \in Emails :
        /\ CanStart(i)
        /\ LET r == Begin(i, "request_email", email, "", NoToken)
               user == get_user_by_email(email)
           IN /\ req' = Serve(i, Done(r, request_email(user)))
              /\ issued' = IF user.exists /\ ~user.confirmed
                            THEN issued \cup {send_email(user.email, now)}
                            ELSE issued
        /\ started' = started + 1
        /\ UNCHANGED <<users, cache, superseded, now, ticks, contactVars>>

NextMail ==
    \/ \E i \in Slots : Signup(i)
    \/ \E i \in Slots : RequestEmail(i)
    \/ \E i \in Slots : ConfirmedEmail(i)
    \/ Tick

SpecMail == Init /\ [][NextMail]_vars

\* get_current_user with the requests that create a row (signup) and change
\* one (login), and the clock.
NextResolve ==
    \/ CacheArrival /\ \E i \in Slots : GetCurrentUserBegin(i)
    \/ \E i \in Slots : GetCurrentUserStore(i)
    \/ \E i \in Slots : GetCurrentUserSet(i)
    \/ \E i \in Slots : GetCurrentUserExpire(i)
    \/ \E i \in Slots : GetCurrentUserStops(i)
    \/ CacheArrival /\ \E i \in Slots : Signup(i)
    \/ CacheArrival /\ \E i \in Slots : LoginRead(i)
    \/ \E i \in Slots : LoginCommit(i)
    \/ Tick

SpecResolve == InitCache /\ [][NextResolve]_vars

-----------------------------------------------------------------------------
(* routes/contacts.py.  current_user is what get_current_user made of the   *)
(* token of the request: NoPrincipal when it raised, else the User.  The    *)
(* dependencies of a route are resolved before its body runs.               *)

\* A route without its dependencies=[Depends(allowed_operation)].
Dependencies_token_only(allowed_operation, current_user) ==
    IF ~current_user.exists THEN credentials_exception ELSE NoResp

\* The exception raised by the dependencies of a route, NoResp when the body
\* of the route is run.
Dependencies(allowed_operation, current_user) ==
    IF ~current_user.exists THEN credentials_exception
    ELSE RoleAccess(allowed_operation, current_user)

NotFound == HTTPException(HTTP_404_NOT_FOUND, "Not Found")

Answer(op, current_user, id, resp, contact) ==
    [op |-> op, current_user |-> current_user, id |-> id, resp |-> resp,
     contact |-> contact]

get_contact ==
    \E current_user \in CurrentUsers, id \in ContactIds :
        /\ LET err == Dependencies(allowed_operation_get, current_user)
               contact == get_contact_by_id(id)
           IN creq' = IF err # NoResp
                      THEN Answer("get_contact", current_user, id, err, NoContact)
                      ELSE IF ~contact.exists
                      THEN Answer("get_contact", current_user, id, NotFound, NoContact)
                      ELSE Answer("get_contact", current_user, id,
                                  [NoResp EXCEPT !.status = HTTP_200_OK], contact)
        /\ UNCHANGED <<users, cache, now, req, issued, superseded, ticks, started,
                       contacts, fcall>>

\* An INSERT with the id of a row that exists fails on the primary key and the
\* request ends with 500.
create_contacts ==
    \E current_user \in CurrentUsers, body \in ContactBodies :
        /\ LET err == Dependencies(allowed_operation_create, current_user)
               contact == get_contact_by_email(body.email)
           IN IF err # NoResp
              THEN /\ creq' = Answer("create_contacts", current_user, body.id, err, NoContact)
                   /\ UNCHANGED contacts
              ELSE IF contact.exists
              THEN /\ creq' = Answer("create_contacts", current_user, body.id,
                                     HTTPException(HTTP_409_CONFLICT, "Email is exists!"),
                                     NoContact)
                   /\ UNCHANGED contacts
              ELSE IF ~contacts_pkey(body.id)
              THEN /\ creq' = Answer("create_contacts", current_user, body.id,
                                     HTTPException(HTTP_500_INTERNAL_SERVER_ERROR,
                                                   "Internal Server Error"),
                                     NoContact)
                   /\ UNCHANGED contacts
              ELSE /\ contacts' = repo_create(body)
                   /\ creq' = Answer("create_contacts", current_user, body.id,
                                     [NoResp EXCEPT !.status = HTTP_201_CREATED],
                                     repo_create(body)[body.id])
        /\ UNCHANGED <<users, cache, now, req, issued, superseded, ticks, started, fcall>>

update_contact ==
    \E current_user \in CurrentUsers, id \in ContactIds, body \in ContactBodies :
        /\ LET err == Dependencies(allowed_operation_update, current_user)
           IN IF err # NoResp
              THEN /\ creq' = Answer("update_contact", current_user, id, err, NoContact)
                   /\ UNCHANGED contacts
              ELSE IF ~get_contact_by_id(id).exists
              THEN /\ creq' = Answer("update_contact", current_user, id, NotFound, NoContact)
                   /\ UNCHANGED contacts
              ELSE /\ contacts' = repo_update(id, body)
                   /\ creq' = Answer("update_contact", current_user, id,
                                     [NoResp EXCEPT !.status = HTTP_200_OK],
                                     repo_update(id, body)[id])
        /\ UNCHANGED <<users, cache, now, req, issued, superseded, ticks, started, fcall>>

remove_contact ==
    \E current_user \in CurrentUsers, id \in ContactIds :
        /\ LET err == Dependencies(allowed_operation_remove, current_user)
               contact == get_contact_by_id(id)
           IN IF err # NoResp
              THEN /\ creq' = Answer("remove_contact", current_user, id, err, NoContact)
                   /\ UNCHANGED contacts
              ELSE IF ~contact.exists
              THEN /\ creq' = Answer("remove_contact", current_user, id, NotFound, NoContact)
                   /\ UNCHANGED contacts
              ELSE /\ contacts' = repo_remove(id)
                   /\ creq' = Answer("remove_contact", current_user, id,
                                     [NoResp EXCEPT !.status = HTTP_204_NO_CONTENT],
                                     contact)
        /\ UNCHANGED <<users, cache, now, req, issued, superseded, ticks, started, fcall>>

NextContacts ==
    \/ get_contact
    \/ create_contacts
    \/ update_contact
    \/ remove_contact

SpecContacts == Init /\ [][NextContacts]_vars

-----------------------------------------------------------------------------
(* repository/contacts.py called directly, as its unit tests call it: the   *)
(* call made last, its arguments and what it returned are kept in fcall.    *)

Returned(fn, id, body, raised, result) ==
    [fn |-> fn, id |-> id, body |-> body, raised |-> raised, result |-> result]

NoBody == [id |-> 0]

\* The bodies given to the repository: for each id, two bodies that differ
\* in every column.
RepoBodies ==
    {[id |-> k, first_name |-> "Ann", last_name |-> "Doe", email |-> "c@x.ua",
      phone_number |-> "+380 (44) 1234567", birth_date |-> <<1990, 11, 11>>,
      additional_data |-> ""] : k \in ContactIds}
    \cup
    {[id |-> k, first_name |-> "Bob", last_name |-> "Roe", email |-> "d@x.ua",
      phone_number |-> "+380 (44) 7654321", birth_date |-> <<2023, 11, 11>>,
      additional_data |-> "vip"] : k \in ContactIds}

RepoGetContactById ==
    \E id \in ContactIds :
        /\ fcall' = Returned("get_contact_by_id", id, NoBody, FALSE, get_contact_by_id(id))
        /\ UNCHANGED <<users, cache, now, req, issued, superseded, ticks, started,
                       contacts, creq>>

RepoCreate ==
    \E body \in RepoBodies :
        /\ contacts' = repo_create(body)
        /\ fcall' = IF contacts_pkey(body.id)
                    THEN Returned("create", body.id, body, FALSE, repo_create(body)[body.id])
                    ELSE Returned("create", body.id, body, TRUE, NoContact)
        /\ UNCHANGED <<users, cache, now, req, issued, superseded, ticks, started, creq>>

RepoUpdate ==
    \E id \in ContactIds, body \in RepoBodies :
        /\ contacts' = repo_update(id, body)
        /\ fcall' = Returned("update", id, body, FALSE, repo_update(id, body)[id])
        /\ UNCHANGED <<users, cache, now, req, issued, superseded, ticks, started, creq>>

RepoRemove ==
    \E id \in ContactIds :
        /\ contacts' = repo_remove(id)
        /\ fcall' = Returned("remove", id, NoBody, FALSE, get_contact_by_id(id))
        /\ UNCHANGED <<users, cache, now, req, issued, superseded, ticks, started, creq>>

NextRepository ==
    \/ RepoGetContactById
    \/ RepoCreate
    \/ RepoUpdate
    \/ RepoRemove

SpecRepository == Init /\ [][NextRepository]_vars

-----------------------------------------------------------------------------
(* The routes of routes/contacts.py that answer with a list, over a table   *)
(* filled through the repository.  A list is kept as the set of its rows.   *)

\* The emails a client can ask for: those of the bodies and one that no
\* contact has.
SearchEmails == ContactEmails \cup {"nobody@x.ua"}

\* date.today() at the time of a request, as <<year, month, day>>.
Todays == {<<2023, 11, 4>>, <<2023, 11, 10>>, <<2023, 11, 12>>, <<2024, 2, 25>>}

BirthdayDays == 7

IsLeap(y) == (y % 4 = 0 /\ y % 100 # 0) \/ y % 400 = 0

DaysBeforeMonth == <<0, 31, 59, 90, 120, 151, 181, 212, 243, 273, 304, 334>>

\* date.toordinal(): the days from 0001-01-01 to the date, that day counted.
toordinal(d) ==
    LET y == d[1] - 1
    IN 365 * y + (y \div 4) - (y \div 100) + (y \div 400)
       + DaysBeforeMonth[d[2]] + (IF d[2] > 2 /\ IsLeap(d[1]) THEN 1 ELSE 0)
       + d[3]

\* db.query(Contact).filter_by(email=email).all(): a list, empty when no row
\* has the email, never None.
search_contact_by_email(email) ==
    {contacts[k] : k \in {j \in ContactIds :
                             contacts[j].exists /\ contacts[j].email = email}}

\* filter(Contact.birth_date >= start_date, Contact.birth_date <= end_date)
\* with end_date = start_date + timedelta(days): the dates are compared whole,
\* year included.
repo_get_birthdays(start_date, days) ==
    {contacts[k] : k \in {j \in ContactIds :
        /\ contacts[j].exists
        /\ toordinal(contacts[j].birth_date) >= toordinal(start_date)
        /\ toordinal(contacts[j].birth_date) <= toordinal(start_date) + days}}

AnswerList(op, current_user, email, today, resp, found) ==
    [op |-> op, current_user |-> current_user, email |-> email, today |-> today,
     resp |-> resp, found |-> found]

search_contacts_by_email ==
    \E current_user \in CurrentUsers, email \in SearchEmails :
        /\ LET err == Dependencies(allowed_operation_get, current_user)
               contact == search_contact_by_email(email)
           IN creq' = IF err # NoResp
                      THEN AnswerList("search_contacts_by_email", current_user, email,
                                      <<>>, err, {})
                      \* `contact is None` is never true of a list
                      ELSE AnswerList("search_contacts_by_email", current_user, email,
                                      <<>>, [NoResp EXCEPT !.status = HTTP_200_OK], contact)
        /\ UNCHANGED <<users, cache, now, req, issued, superseded, ticks, started,
                       contacts, fcall>>

get_birthdays ==
    \E current_user \in CurrentUsers, today \in Todays :
        /\ LET err == Dependencies(allowed_operation_get, current_user)
               birthdays == repo_get_birthdays(today, BirthdayDays)
           IN creq' = IF err # NoResp
                      THEN AnswerList("get_birthdays", current_user, "", today, err, {})
                      ELSE AnswerList("get_birthdays", current_user, "", today,
                                      [NoResp EXCEPT !.status = HTTP_200_OK], birthdays)
        /\ UNCHANGED <<users, cache, now, req, issued, superseded, ticks, started,
                       contacts, fcall>>

NextSearch ==
    \/ RepoCreate
    \/ RepoUpdate
    \/ RepoRemove
    \/ search_contacts_by_email
    \/ get_birthdays

SpecSearch == Init /\ [][NextSearch]_vars

-----------------------------------------------------------------------------
(* RoleAccess evaluated alone, for every role and every list of allowed     *)
(* roles of at most MaxAllowed members.                                     *)

AllowLists == UNION {[1..n -> Roles] : n \in 0..MaxAllowed}

RoleAccessCall ==
    \E role \in Roles, allowed_roles \in AllowLists :
        /\ fcall' = [fn |-> "RoleAccess", allowed_roles |-> allowed_roles,
                     current_user |-> Principal(role),
                     raised |-> RoleAccess(allowed_roles, Principal(role))]
        /\ UNCHANGED <<users, cache, now, req, issued, superseded, ticks, started,
                       contacts, creq>>

NextRoles == RoleAccessCall

SpecRoles == Init /\ [][NextRoles]_vars

-----------------------------------------------------------------------------
(* get_current_user while Redis cannot be reached: a call to self.r raises  *)
(* redis.ConnectionError, which nothing in get_current_user catches.        *)

InternalServerError ==
    HTTPException(HTTP_500_INTERNAL_SERVER_ERROR, "Internal Server Error")

\* self.r.get raises.
GetCurrentUserGetRaises(i) ==
    \E tok \in Presentable :
        /\ CanStart(i)
        /\ get_current_user_subject(tok, now) # ""
        /\ LET r == Begin(i, "get_current_user", "", "", tok)
               email == get_current_user_subject(tok, now)
           IN req' = Serve(i, Done(Logged([r EXCEPT !.email = email], "r.get"),
                                   InternalServerError))
        /\ started' = started + 1
        /\ UNCHANGED <<users, cache, issued, superseded, now, ticks, contactVars>>

\* self.r.set raises.
GetCurrentUserSetRaises(i) ==
    /\ req[i].pc = "gcu_set"
    /\ req' = [req EXCEPT ![i] = Done(Logged(req[i], "r.set"), InternalServerError)]
    /\ UNCHANGED <<users, cache, issued, superseded, now, ticks, started, contactVars>>

NextCacheDown ==
    \/ CacheArrival /\ \E i \in Slots : GetCurrentUserBegin(i)
    \/ CacheArrival /\ \E i \in Slots : GetCurrentUserGetRaises(i)
    \/ \E i \in Slots : GetCurrentUserStore(i)
    \/ \E i \in Slots : GetCurrentUserSet(i)
    \/ \E i \in Slots : GetCurrentUserSetRaises(i)
    \/ \E i \in Slots : GetCurrentUserExpire(i)
    \/ \E i \in Slots : GetCurrentUserStops(i)
    \/ Tick

SpecCacheDown == InitCache /\ [][NextCacheDown]_vars

-----------------------------------------------------------------------------
(* The session routes for clients whose tokens outlive their row.           *)

\* As InitCache, the client of the address without a row holding the refresh
\* token of its last login too.
InitRefresh ==
    /\ users = [e \in Emails |->
                  IF e = SeedEmail
                  THEN [create_user(e, get_password_hash("pw1")) EXCEPT
                           !.confirmed = TRUE,
                           !.refresh_token = create_refresh_token(e, 0, NoDelta)]
                  ELSE NoUser]
    /\ cache = [e \in Emails |-> NoEntry]
    /\ issued = {create_access_token(SeedEmail, 0, NoDelta),
                 create_refresh_token(SeedEmail, 0, NoDelta),
                 create_access_token(OrphanEmail, 0, NoDelta),
                 create_refresh_token(OrphanEmail, 0, NoDelta)}
    /\ superseded = {}
    /\ now = 0
    /\ ticks = 0
    /\ started = 0
    /\ req = [i \in Slots |-> Idle]
    /\ contacts = [k \in ContactIds |-> NoContact]
    /\ creq = NoContactRequest
    /\ fcall = NoCall

NextRefresh ==
    \/ CacheArrival /\ \E i \in Slots : LoginRead(i)
    \/ \E i \in Slots : LoginCommit(i)
    \/ CacheArrival /\ \E i \in Slots : RefreshRead(i)
    \/ \E i \in Slots : RefreshClear(i)
    \/ \E i \in Slots : RefreshCommit(i)
    \/ Tick

SpecRefresh == InitRefresh /\ [][NextRefresh]_vars

-----------------------------------------------------------------------------
(* signup followed read by write: the lookup of the email and the INSERT of *)
(* create_user are two statements, and other requests run between them.     *)

\* The unique constraint on users.email (database/models.py): the commit of
\* an INSERT raises IntegrityError when a row with the email is in the table.
users_email_unique(email) == ~users[email].exists

SignupCheck(i) ==
    \E email \in Emails, password \in Passwords :
        /\ CanStart(i)
        /\ LET r == Begin(i, "signup", email, password, NoToken)
               exist_user == get_user_by_email(email)
           IN req' = Serve(i,
                        IF exist_user.exists
                        THEN Done(r, HTTPException(HTTP_409_CONFLICT, "Account already exists"))
                        ELSE [r EXCEPT !.pc = "signup_create"])
        /\ started' = started + 1
        /\ UNCHANGED <<users, cache, issued, superseded, now, ticks, contactVars>>

SignupCreate(i) ==
    /\ req[i].pc = "signup_create"
    /\ LET email == req[i].email
           new_user == create_user(email, get_password_hash(req[i].password))
       IN IF users_email_unique(email)
          THEN /\ users' = [users EXCEPT ![email] = new_user]
               /\ issued' = issued \cup {send_email(email, now)}
               /\ req' = [req EXCEPT ![i] =
                            Done(req[i], [NoResp EXCEPT !.status = HTTP_201_CREATED,
                                                        !.user = new_user])]
          \* db.commit() raises IntegrityError, which nothing catches
          ELSE /\ req' = [req EXCEPT ![i] = Done(req[i], InternalServerError)]
               /\ UNCHANGED <<users, issued>>
    /\ UNCHANGED <<cache, superseded, now, ticks, started, contactVars>>

NextSignup ==
    \/ \E i \in Slots :
          \/ SignupCheck(i)
          \/ SignupCreate(i)
          \/ ConfirmedEmail(i)
    \/ Tick

SpecSignup == Init /\ [][NextSignup]_vars

-----------------------------------------------------------------------------
(* get_current_user beside the routes that write the stored refresh token:  *)
(* login and refresh_token, for a principal that holds a session.           *)

NextSession ==
    \/ CacheArrival /\ \E i \in Slots : GetCurrentUser(i)
    \/ CacheArrival /\ \E i \in Slots : LoginRead(i)
    \/ \E i \in Slots : LoginCommit(i)
    \/ CacheArrival /\ \E i \in Slots : RefreshRead(i)
    \/ \E i \in Slots : RefreshClear(i)
    \/ \E i \in Slots : RefreshCommit(i)
    \/ Tick

SpecSession == InitCache /\ [][NextSession]_vars

-----------------------------------------------------------------------------
(* login for principals that are registered and, some of them, confirmed.   *)

NextLogin ==
    \/ \E i \in Slots :
          \/ Signup(i)
          \/ ConfirmedEmail(i)
          \/ LoginRead(i)
          \/ LoginCommit(i)
    \/ Tick

SpecLogin == Init /\ [][NextLogin]_vars

-----------------------------------------------------------------------------
(* healthchecker of main.py, probed while the repository is in use.         *)

\* What db.execute(text("SELECT 1")).fetchone() does: it returns a row, it
\* returns None, or it raises.
Probes == {"row", "none", "raises"}

\* The exception raised inside the try block, NoResp when none is.
healthchecker_try(probe) ==
    CASE probe = "raises" ->
           HTTPException(HTTP_500_INTERNAL_SERVER_ERROR, "OperationalError")
      [] probe = "none" ->
           HTTPException(HTTP_500_INTERNAL_SERVER_ERROR,
                         "Database is not configured correctly")
      [] probe = "row" -> NoResp

\* `except Exception` catches whatever the try block raised, the
\* HTTPException of the route included, and raises its own.
healthchecker_response(probe) ==
    IF healthchecker_try(probe) # NoResp
    THEN [resp |-> HTTPException(HTTP_500_INTERNAL_SERVER_ERROR,
                                 "Error connecting to the database"),
          message |-> ""]
    ELSE [resp |-> [NoResp EXCEPT !.status = HTTP_200_OK],
          message |-> "Welcome to FastAPI!"]

healthchecker ==
    \E probe \in Probes :
        /\ creq' = [op |-> "healthchecker", probe |-> probe,
                    resp |-> healthchecker_response(probe).resp,
                    message |-> healthchecker_response(probe).message]
        /\ UNCHANGED <<users, cache, now, req, issued, superseded, ticks, started,
                       contacts, fcall>>

NextHealth ==
    \/ healthchecker
    \/ RepoCreate
    \/ RepoUpdate
    \/ RepoRemove

SpecHealth == Init /\ [][NextHealth]_vars

-----------------------------------------------------------------------------
(* The token functions evaluated alone: a token is made for a subject, at a *)
(* clock reading and with a lifetime, and then given to its consumer.       *)

TokenKinds == {"access_token", "refresh_token", "email_token"}

\* expires_delta: None, or a number of seconds from 0 to MaxDelta.
Deltas == {NoDelta} \cup {<<d>> : d \in 0..MaxDelta}

\* The second reading of the clock is in the same second or in the next.
ClockSkews == {0, 1}

CreateTokenCall ==
    \E kind \in TokenKinds, sub \in Emails, t \in 0..MaxClock,
       skew \in ClockSkews, expires_delta \in Deltas :
        /\ kind = "email_token" => expires_delta = NoDelta
        /\ fcall' = [fn |-> "create_token", kind |-> kind, sub |-> sub,
                     expires_delta |-> expires_delta,
                     token |->
                        CASE kind = "access_token" ->
                               access_token_claims(sub, t, t + skew, expires_delta)
                          [] kind = "refresh_token" ->
                               refresh_token_claims(sub, t, t + skew, expires_delta)
                          [] kind = "email_token" ->
                               email_token_claims(sub, t, t + skew)]
        /\ UNCHANGED <<users, cache, now, req, issued, superseded, ticks, started,
                       contacts, creq>>

\* The token made last is given to the consumer of its kind at the time at.
ConsumeTokenCall ==
    \E at \in 0..(MaxClock + MaxDelta) :
        /\ fcall.fn = "create_token"
        /\ fcall.token.iat <= at
        /\ fcall' = [fn |-> "consume_token", kind |-> fcall.kind, sub |-> fcall.sub,
                     token |-> fcall.token, at |-> at,
                     subject |->
                        CASE fcall.kind = "access_token" ->
                               get_current_user_subject(fcall.token, at)
                          [] fcall.kind = "refresh_token" ->
                               decode_refresh_token_sub(fcall.token, at)
                          [] fcall.kind = "email_token" ->
                               IF get_email_from_token_raises(fcall.token, at) = NoResp
                               THEN get_email_from_token(fcall.token)
                               ELSE ""]
        /\ UNCHANGED <<users, cache, now, req, issued, superseded, ticks, started,
                       contacts, creq>>

NextTokens ==
    \/ CreateTokenCall
    \/ ConsumeTokenCall

SpecTokens == Init /\ [][NextTokens]_vars

-----------------------------------------------------------------------------
(* Vocabulary of the properties *)

\* The step is taken by the request of slot i: the request arrives (it takes
\* the first slot that serves none) or it goes on from where it was.
Arrives(i) ==
    /\ started' = started + 1
    /\ ~InFlight(i)
    /\ \A j \in Slots : j < i => InFlight(j)

Continues(i) == InFlight(i) /\ req'[i].pc # req[i].pc

Acts(i) == Arrives(i) \/ Continues(i)

Finished(i, op) == req[i].op = op /\ req[i].pc = "done"

Succeeded(i, op) == Finished(i, op) /\ req[i].resp.status = HTTP_200_OK

\* The error classes of the specification, as the responses the routes send.
InvalidCredentials(resp) ==
    /\ resp.status = HTTP_401_UNAUTHORIZED
    /\ resp.detail \in {"Invalid email", "Invalid password"}

EmailNotConfirmed(resp) ==
    /\ resp.status = HTTP_401_UNAUTHORIZED
    /\ resp.detail = "Email not confirmad"

RefreshMismatch(resp) ==
    /\ resp.status = HTTP_401_UNAUTHORIZED
    /\ resp.detail = "Invalid refresh token"

NoTokensIn(resp) == resp.access_token = NoToken /\ resp.refresh_token = NoToken

-----------------------------------------------------------------------------
(* C1: token scope is enforced by every consumer.  In every step, a           *)
(* get_current_user request resolves a principal only for a token of scope    *)
(* access_token, a refresh request changes the stored refresh token, hands    *)
(* out tokens or succeeds only for a token of scope refresh_token, and a      *)
(* confirmed_email request changes the users table only for a token of scope  *)
(* email_token.                                                               *)

C1_Step(i) ==
    /\ (req'[i].op = "get_current_user" /\ req'[i].resp.status = HTTP_200_OK)
          => req'[i].token.scope = "access_token"
    /\ (req'[i].op = "refresh"
          /\ (users' # users \/ issued' # issued \/ InFlight(i)'
                \/ req'[i].resp.status = HTTP_200_OK))
          => req'[i].token.scope = "refresh_token"
    /\ (req'[i].op = "confirmed_email" /\ users' # users)
          => req'[i].token.scope = "email_token"

C1_ScopeEnforced == [][\A i \in Slots : Acts(i) => C1_Step(i)]_vars

\* A validly signed, unexpired access token was presented to refresh while the
\* principal had a stored refresh token, and the request was turned down.
C1_Witness ==
    \E i \in Slots :
        /\ Finished(i, "refresh")
        /\ req[i].token.scope = "access_token"
        /\ req[i].token.exp >= now
        /\ users[req[i].token.sub].refresh_token # NoToken
        /\ req[i].resp.status = HTTP_401_UNAUTHORIZED

-----------------------------------------------------------------------------
(* C2: at most one refresh token is valid per principal.  Once a refresh      *)
(* token has been issued to a principal, no refresh request that presents a   *)
(* token issued to that principal by an earlier login or refresh succeeds.    *)
(* (stale: the token presented had been superseded when it was presented.)    *)

C2_SupersededNeverAccepted ==
    \A i \in Slots : Succeeded(i, "refresh") => ~req[i].stale

-----------------------------------------------------------------------------
(* C3: a refresh request with a validly signed, unexpired token of scope      *)
(* refresh_token that differs from the stored refresh token of its principal  *)
(* goes to the mismatch branch, and that branch ends with 401 "Invalid        *)
(* refresh token", hands out no token and leaves the stored refresh token of  *)
(* the principal None.                                                        *)

C3_Step(i) ==
    /\ (/\ Arrives(i)
        /\ req'[i].op = "refresh"
        /\ jwt_decode_ok(req'[i].token, now)
        /\ req'[i].token.scope = "refresh_token"
        /\ users[req'[i].token.sub].exists
        /\ users[req'[i].token.sub].refresh_token # req'[i].token)
          => req'[i].pc = "refresh_clear"
    /\ (Continues(i) /\ req[i].pc = "refresh_clear")
          => /\ Finished(i, "refresh")'
             /\ RefreshMismatch(req'[i].resp)
             /\ NoTokensIn(req'[i].resp)
             /\ issued' = issued
             /\ users'[req[i].email].refresh_token = NoToken

C3_MismatchClearsSession == [][\A i \in Slots : Acts(i) => C3_Step(i)]_vars

\* A refresh token superseded by a newer one was presented: the request read
\* another stored token, failed, and the stored token is None.
C3_Witness ==
    \E i \in Slots :
        /\ Finished(i, "refresh")
        /\ RefreshMismatch(req[i].resp)
        /\ req[i].stale
        /\ req[i].user.refresh_token \notin {NoToken, req[i].token}
        /\ users[req[i].email].refresh_token = NoToken

-----------------------------------------------------------------------------
(* C4: rotation.  A refresh request whose token equals the stored refresh     *)
(* token of its principal passes the comparison, and then answers 200 with    *)
(* an access token and a refresh token made at that moment for the principal  *)
(* and token_type "bearer"; right after, the stored refresh token is the one  *)
(* returned.                                                                  *)

C4_Returns(i) ==
    (Continues(i) /\ req[i].pc = "refresh_commit")
        => /\ Succeeded(i, "refresh")'
           /\ req'[i].resp.token_type = "bearer"
           /\ req'[i].resp.access_token = create_access_token(req[i].email, now, NoDelta)
           /\ req'[i].resp.refresh_token = create_refresh_token(req[i].email, now, NoDelta)
           /\ {req'[i].resp.access_token, req'[i].resp.refresh_token} \subseteq issued'
           /\ users'[req[i].email].refresh_token = req'[i].resp.refresh_token

C4_CalledWithStored(i) ==
    /\ Arrives(i)
    /\ req'[i].op = "refresh"
    /\ req'[i].token.sub \in Emails
    /\ users[req'[i].token.sub].exists
    /\ users[req'[i].token.sub].refresh_token = req'[i].token

\* The claim as written: for every token equal to the stored one.
C4_Original ==
    [][\A i \in Slots :
          /\ C4_CalledWithStored(i) => req'[i].pc = "refresh_commit"
          /\ C4_Returns(i)]_vars

\* The claim for a token that jwt.decode accepts (signed, not expired).
C4_Rotation ==
    [][\A i \in Slots :
          /\ (C4_CalledWithStored(i) /\ jwt_decode_ok(req'[i].token, now))
                => req'[i].pc = "refresh_commit"
          /\ C4_Returns(i)]_vars

\* A refresh with the stored token succeeded and the store holds the token
\* that was returned.
C4_Witness ==
    \E i \in Slots :
        /\ Succeeded(i, "refresh")
        /\ req[i].user.refresh_token = req[i].token
        /\ users[req[i].email].refresh_token = req[i].resp.refresh_token
        /\ req[i].resp.refresh_token # NoToken

-----------------------------------------------------------------------------
(* C5: of the refresh requests that are in service at the same time and       *)
(* present the same token, at most one succeeds.                              *)

Concurrent(i, j) == i \in req[j].peers \/ j \in req[i].peers

C5_AtMostOneConcurrentSuccess ==
    \A i, j \in Slots :
        (/\ i # j
         /\ Concurrent(i, j)
         /\ req[i].token = req[j].token
         /\ Succeeded(i, "refresh"))
            => ~Succeeded(j, "refresh")

-----------------------------------------------------------------------------
(* C6: when two refresh requests in service at the same time present the      *)
(* same token, the stored token of the principal when the first arrived, then *)
(* once both have ended exactly one has succeeded, the other has failed with  *)
(* 401 "Invalid refresh token", and the stored refresh token is None.         *)

C6_ExactlyOneThenCleared ==
    \A i, j \in Slots :
        (/\ i # j
         /\ i \in req[j].peers
         /\ Finished(i, "refresh")
         /\ Finished(j, "refresh")
         /\ req[i].token = req[j].token
         /\ req[i].user.refresh_token = req[i].token)
            => /\ \/ Succeeded(i, "refresh") /\ RefreshMismatch(req[j].resp)
                  \/ Succeeded(j, "refresh") /\ RefreshMismatch(req[i].resp)
               /\ users[req[i].email].refresh_token = NoToken

-----------------------------------------------------------------------------
(* C7: a login for an email without principal, or with a password that does   *)
(* not verify for a confirmed principal, ends with the invalid-credentials    *)
(* response; a login for a principal that is not confirmed ends with the      *)
(* email-not-confirmed response; and a login that fails answers 401 with no   *)
(* token and changes neither the users table nor the tokens handed out.       *)

C7_Step(i) ==
    (Arrives(i) /\ req'[i].op = "login") =>
        LET user == users[req'[i].email]
            resp == req'[i].resp
        IN /\ ~user.exists
                => Finished(i, "login")' /\ InvalidCredentials(resp)
           /\ (user.exists /\ ~user.confirmed)
                => Finished(i, "login")' /\ EmailNotConfirmed(resp)
           /\ (user.exists /\ user.confirmed
                 /\ user.password # get_password_hash(req'[i].password))
                => Finished(i, "login")' /\ InvalidCredentials(resp)
           /\ Finished(i, "login")'
                => /\ resp.status = HTTP_401_UNAUTHORIZED
                   /\ NoTokensIn(resp)
                   /\ users' = users
                   /\ issued' = issued
                   /\ cache' = cache

C7_LoginFailures == [][\A i \in Slots : Acts(i) => C7_Step(i)]_vars

\* A login with a wrong password for a principal that holds a session failed
\* and the session is still there.
C7_Witness ==
    \E i \in Slots :
        /\ Finished(i, "login")
        /\ req[i].resp.detail = "Invalid password"
        /\ users[req[i].email].refresh_token # NoToken

-----------------------------------------------------------------------------
(* C8: the response of a login for an email without principal has the status  *)
(* and the detail of the response of a login with a wrong password for a      *)
(* confirmed principal.                                                       *)

C8_SameFailure ==
    \A i \in Slots :
        (Finished(i, "login") /\ req[i].resp.detail = "Invalid email") =>
            \A e \in Emails, p \in Passwords :
                (/\ users[e].exists
                 /\ users[e].confirmed
                 /\ users[e].password # get_password_hash(p))
                    => /\ login_checks(users[e], p).status = req[i].resp.status
                       /\ login_checks(users[e], p).detail = req[i].resp.detail

-----------------------------------------------------------------------------
(* C9: a login with the password a principal registered with goes on to the   *)
(* commit when the principal is confirmed and ends with the                   *)
(* email-not-confirmed response when it is not; the commit answers 200 with   *)
(* an access token and a refresh token for the principal, token_type          *)
(* "bearer", and leaves the stored refresh token equal to the one returned.   *)

C9_Step(i) ==
    /\ (/\ Arrives(i)
        /\ req'[i].op = "login"
        /\ users[req'[i].email].exists
        /\ users[req'[i].email].password = get_password_hash(req'[i].password))
          => IF users[req'[i].email].confirmed
             THEN req'[i].pc = "login_commit"
             ELSE Finished(i, "login")' /\ EmailNotConfirmed(req'[i].resp)
    /\ (Continues(i) /\ req[i].pc = "login_commit")
          => /\ Succeeded(i, "login")'
             /\ req'[i].resp.token_type = "bearer"
             /\ req'[i].resp.access_token # NoToken
             /\ req'[i].resp.access_token.scope = "access_token"
             /\ req'[i].resp.access_token.sub = req[i].email
             /\ req'[i].resp.refresh_token # NoToken
             /\ req'[i].resp.refresh_token.scope = "refresh_token"
             /\ req'[i].resp.refresh_token.sub = req[i].email
             /\ users'[req[i].email].refresh_token = req'[i].resp.refresh_token

C9_LoginAfterConfirmation == [][\A i \in Slots : Acts(i) => C9_Step(i)]_vars

\* A principal signed up and confirmed, logged in, and the store holds the
\* refresh token returned.
C9_Witness ==
    \E i \in Slots :
        /\ Succeeded(i, "login")
        /\ users[req[i].email].confirmed
        /\ req[i].resp.refresh_token # NoToken
        /\ users[req[i].email].refresh_token = req[i].resp.refresh_token

-----------------------------------------------------------------------------
(* C10: a principal with a stored refresh token is confirmed.                 *)

C10_SessionOnlyIfConfirmed ==
    \A e \in Emails :
        users[e].refresh_token # NoToken => users[e].exists /\ users[e].confirmed

\* A principal holds a session while another principal is registered and not
\* confirmed.
C10_Witness ==
    \E e, f \in Emails :
        /\ users[e].refresh_token # NoToken
        /\ users[f].exists
        /\ ~users[f].confirmed

-----------------------------------------------------------------------------
\* A get_current_user request that has returned the copy it found in Redis.
ServedFromCache(r) ==
    /\ r.op = "get_current_user"
    /\ r.pc = "done"
    /\ r.resp.status = HTTP_200_OK
    /\ r.log = <<"r.get">>

(* C11: no copy is served past its time to live.  Whenever get_current_user   *)
(* returns the copy it found in Redis, that copy was written to Redis at most *)
(* 900 seconds before, also when a request has ended between its r.set and    *)
(* its r.expire.                                                              *)

C11_NeverServedPastTTL ==
    [][\A i \in Slots :
          (Arrives(i) /\ ServedFromCache(req'[i])) =>
              now - cache[req'[i].email].set_at <= CacheTTL]_vars

(* C12: the cache is transparent.  Whenever get_current_user returns the copy *)
(* it found in Redis, that copy equals the row the users table holds for the  *)
(* address at that moment.                                                    *)

C12_CacheTransparent ==
    [][\A i \in Slots :
          (Arrives(i) /\ ServedFromCache(req'[i])) =>
              req'[i].resp.user = users[req'[i].email]]_vars

(* C13: a refresh that ends in the mismatch branch invalidates the cache.     *)
(* Right after the branch has cleared the stored refresh token, Redis holds   *)
(* no copy of that principal.                                                 *)

C13_MismatchInvalidatesCache ==
    [][\A i \in Slots :
          (Continues(i) /\ req[i].pc = "refresh_clear") =>
              ~cache'[req[i].email].present]_vars

-----------------------------------------------------------------------------
\* The calls of get_current_user on a miss, in the order of the code.
MissPath == <<"r.get", "get_user_by_email", "r.set", "r.expire">>

IsPrefix(a, b) == Len(a) <= Len(b) /\ a = SubSeq(b, 1, Len(a))

(* C14: the cache is read first.  A get_current_user request whose token is   *)
(* accepted and whose subject has a key in Redis returns the copy under that  *)
(* key after r.get alone, with the users table not queried and Redis not      *)
(* written; the users table is queried only by a request whose r.get has      *)
(* returned None; and the calls of every request are made in the order r.get, *)
(* get_user_by_email, r.set, r.expire.                                        *)

C14_Step(i) ==
    /\ req'[i].op = "get_current_user" => IsPrefix(req'[i].log, MissPath)
    /\ LET email == get_current_user_subject(req'[i].token, now)
       IN (Arrives(i) /\ req'[i].op = "get_current_user"
              /\ email # "" /\ cache[email].present) =>
             /\ req'[i].pc = "done"
             /\ req'[i].log = <<"r.get">>
             /\ req'[i].resp = [NoResp EXCEPT !.status = HTTP_200_OK,
                                              !.user = cache[email].user]
             /\ cache' = cache
    /\ (Continues(i) /\ Len(req'[i].log) > Len(req[i].log)
           /\ req'[i].log[Len(req'[i].log)] = "get_user_by_email") =>
          /\ req[i].log = <<"r.get">>
          /\ req[i].user = NoUser

C14_CacheReadFirst == [][\A i \in Slots : Acts(i) => C14_Step(i)]_vars

\* A request has been served the copy that an earlier request wrote to Redis
\* with a time to live.
C14_Witness ==
    \E i \in Slots :
        /\ ServedFromCache(req[i])
        /\ cache[req[i].email].present
        /\ cache[req[i].email].ttl
        /\ req[i].resp.user = cache[req[i].email].user

(* C15: no negative caching.  When get_current_user has missed in Redis and   *)
(* the users table has no row for the subject, the request ends with 401      *)
(* "Could not validate credentials" and Redis is left as it was, without a    *)
(* key for the subject; when the table has a row by then, the request goes on *)
(* with that row.                                                             *)

C15_Step(i) ==
    (Continues(i) /\ req[i].pc = "gcu_store") =>
        IF ~users[req[i].email].exists
        THEN /\ req'[i].pc = "done"
             /\ req'[i].resp = HTTPException(HTTP_401_UNAUTHORIZED,
                                             "Could not validate credentials")
             /\ cache' = cache
             /\ ~cache'[req[i].email].present
        ELSE /\ req'[i].pc = "gcu_set"
             /\ req'[i].user = users[req[i].email]

C15_NoNegativeCaching == [][\A i \in Slots : Acts(i) => C15_Step(i)]_vars

\* A request with an accepted access token has failed after r.get and the
\* query of the table, and Redis holds no key for its subject.
C15_Witness ==
    \E i \in Slots :
        /\ req[i].op = "get_current_user"
        /\ req[i].pc = "done"
        /\ req[i].log = <<"r.get", "get_user_by_email">>
        /\ req[i].resp.status = HTTP_401_UNAUTHORIZED
        /\ req[i].email = OrphanEmail
        /\ ~users[OrphanEmail].exists
        /\ ~cache[OrphanEmail].present

-----------------------------------------------------------------------------
\* The scope each consumer asks of its token.
ScopeOf(op) ==
    CASE op = "get_current_user" -> "access_token"
      [] op = "refresh" -> "refresh_token"
      [] op = "confirmed_email" -> "email_token"
      [] OTHER -> ""

(* C16: expired tokens are rejected by every consumer.  A get_current_user,   *)
(* refresh or confirmed_email request that presents a signed token of the     *)
(* scope of its consumer whose exp is not later than the clock ends at once   *)
(* with the invalid-token failure of the consumer (401 "Could not validate    *)
(* credentials", 422 "Invalid token for email verification"), whatever Redis  *)
(* holds, and leaves Redis and the users table as they were.                  *)

C16_Step(i) ==
    (/\ Arrives(i)
     /\ req'[i].token.scope = ScopeOf(req'[i].op)
     /\ req'[i].token.exp <= now) =>
        /\ req'[i].pc = "done"
        /\ req'[i].resp =
              IF req'[i].op = "confirmed_email"
              THEN HTTPException(HTTP_422_UNPROCESSABLE_ENTITY,
                                 "Invalid token for email verification")
              ELSE HTTPException(HTTP_401_UNAUTHORIZED, "Could not validate credentials")
        /\ cache' = cache
        /\ users' = users

C16_ExpiredRejected == [][\A i \in Slots : C16_Step(i)]_vars

-----------------------------------------------------------------------------
(* C17: RoleAccess passes exactly the roles of its list.  For every role and  *)
(* every list of allowed roles, the call returns if and only if the role of   *)
(* the principal is a member of the list, whatever other roles the list       *)
(* holds, and otherwise raises 403 "Operation forbidden".                     *)

C17_MembershipOnly ==
    fcall.fn = "RoleAccess" =>
        LET members == {fcall.allowed_roles[k] : k \in DOMAIN fcall.allowed_roles}
        IN IF fcall.current_user.roles \in members
           THEN fcall.raised = NoResp
           ELSE fcall.raised = HTTPException(HTTP_403_FORBIDDEN, "Operation forbidden")

\* An admin has been refused by a list that names moderator and user.
C17_Witness ==
    /\ fcall.fn = "RoleAccess"
    /\ fcall.allowed_roles = <<"moderator", "user">>
    /\ fcall.current_user.roles = "admin"
    /\ fcall.raised.status = HTTP_403_FORBIDDEN

(* C18: the contacts table changes under the role gate only.  In every step   *)
(* of the contacts router: update_contact runs its body only for an admin or  *)
(* a moderator and remove_contact only for an admin; a request answered 401   *)
(* (no principal for the token) or 403 (role gate) leaves the table as it     *)
(* was; a change of the table by update_contact or remove_contact is made for *)
(* those roles; and get_contact is answered 200 or 404 for every principal    *)
(* with role admin, moderator or user.                                        *)

C18_Step ==
    /\ (creq'.op = "update_contact" /\ creq'.resp.status = HTTP_200_OK) =>
           creq'.current_user.roles \in {"admin", "moderator"}
    /\ (creq'.op = "remove_contact" /\ creq'.resp.status = HTTP_204_NO_CONTENT) =>
           creq'.current_user.roles = "admin"
    /\ creq'.resp.status \in {HTTP_401_UNAUTHORIZED, HTTP_403_FORBIDDEN} =>
           contacts' = contacts
    /\ contacts' # contacts =>
           /\ creq'.op = "update_contact" =>
                  creq'.current_user.roles \in {"admin", "moderator"}
           /\ creq'.op = "remove_contact" => creq'.current_user.roles = "admin"
           /\ creq'.op # "get_contact"
    /\ (creq'.op = "get_contact" /\ creq'.current_user.roles \in Roles) =>
           creq'.resp.status \in {HTTP_200_OK, HTTP_404_NOT_FOUND}
    /\ (creq'.op \in {"update_contact", "remove_contact"}
           /\ creq'.current_user.exists
           /\ creq'.current_user.roles \notin
                 (IF creq'.op = "update_contact" THEN {"admin", "moderator"} ELSE {"admin"})) =>
           creq'.resp = HTTPException(HTTP_403_FORBIDDEN, "Operation forbidden")

C18_ContactsBehindGate == [][C18_Step]_vars

\* A moderator has asked to remove a contact that exists and has been
\* refused; the contact is still in the table.
C18_Witness ==
    /\ creq.op = "remove_contact"
    /\ creq.current_user.roles = "moderator"
    /\ creq.resp.status = HTTP_403_FORBIDDEN
    /\ contacts[creq.id].exists

-----------------------------------------------------------------------------
(* C19: confirmation touches the confirmed flag alone.  A confirmed_email     *)
(* request answered "Email confirmed" leaves the users table as it was but    *)
(* for the confirmed flag of its principal, which was false and is true; any  *)
(* other confirmed_email request, one for a principal already confirmed       *)
(* included, leaves the table as it was; and no confirmed_email request       *)
(* changes Redis or the tokens handed out.                                    *)

C19_Step(i) ==
    (Arrives(i) /\ req'[i].op = "confirmed_email") =>
        /\ IF req'[i].resp.detail = "Email confirmed"
           THEN /\ ~users[req'[i].email].confirmed
                /\ users' = [users EXCEPT ![req'[i].email].confirmed = TRUE]
           ELSE users' = users
        /\ LET email == get_email_from_token(req'[i].token)
           IN (jwt_decode_ok(req'[i].token, now) /\ email \in Emails
                  /\ users[email].confirmed) =>
                 /\ req'[i].resp.detail = "Your email is already confirmed"
                 /\ users' = users
        /\ cache' = cache
        /\ issued' = issued

C19_ConfirmationFrame == [][\A i \in Slots : C19_Step(i)]_vars

\* A principal has been confirmed while another principal, registered and
\* not confirmed, is in the table.
C19_Witness ==
    \E i \in Slots : \E f \in Emails :
        /\ Finished(i, "confirmed_email")
        /\ req[i].resp.detail = "Email confirmed"
        /\ users[req[i].email].confirmed
        /\ f # req[i].email
        /\ users[f].exists
        /\ ~users[f].confirmed

(* C20: request_email tells nothing about the users table.  Every             *)
(* request_email request is answered as it is when the table has no row for   *)
(* the address, whether a row exists or not and whether it is confirmed or    *)
(* not.                                                                       *)

C20_SameResponse ==
    [][\A i \in Slots :
          (Arrives(i) /\ req'[i].op = "request_email") =>
              req'[i].resp = request_email(NoUser)]_vars

-----------------------------------------------------------------------------
(* C21: get_email_from_token rejects a token of another scope.  For a         *)
(* confirmed_email request whose token is signed and not expired and whose    *)
(* scope is not email_token, get_email_from_token raises, and the request     *)
(* ends with 422 "Invalid token for email verification".                      *)

-----------------------------------------------------------------------------
(* C22: refresh has three outcomes.  Every refresh request that has ended     *)
(* has answered 200 with an access token and a refresh token, or 401 for an   *)
(* invalid token ("Could not validate credentials", "Invalid scope for        *)
(* token"), or 401 "Invalid refresh token".                                   *)

C22_ThreeOutcomes ==
    \A i \in Slots :
        Finished(i, "refresh") =>
            \/ /\ req[i].resp.status = HTTP_200_OK
               /\ ~NoTokensIn(req[i].resp)
            \/ /\ req[i].resp.status = HTTP_401_UNAUTHORIZED
               /\ req[i].resp.detail \in {"Could not validate credentials",
                                          "Invalid scope for token"}
            \/ RefreshMismatch(req[i].resp)

-----------------------------------------------------------------------------
(* C23: Redis is no hard dependency.  Every get_current_user request that has *)
(* ended, whose token was accepted and whose subject has a row in the users   *)
(* table, has answered 200 with the principal of that subject, also when a    *)
(* call to Redis has failed.                                                  *)

C23_CacheNeverRequired ==
    \A i \in Slots :
        (/\ Finished(i, "get_current_user")
         /\ req[i].email # ""
         /\ users[req[i].email].exists) =>
            /\ req[i].resp.status = HTTP_200_OK
            /\ req[i].resp.user.email = req[i].email

-----------------------------------------------------------------------------
\* The lifetime of a token of a kind when none is supplied, in seconds.
DefaultLifetime(kind) ==
    CASE kind = "access_token" -> AccessTokenMinutes * SecondsPerMinute
      [] kind = "refresh_token" -> RefreshTokenDays * SecondsPerDay
      [] kind = "email_token" -> EmailTokenDays * SecondsPerDay

(* C24: token lifetimes.  For every token made, exp is iat plus the lifetime  *)
(* supplied, for every lifetime from 0 up, and iat plus 15 minutes (access),  *)
(* 7 days (refresh) or 7 days (email) when none is supplied.                  *)

C24_Lifetimes ==
    fcall.fn = "create_token" =>
        fcall.token.exp = fcall.token.iat +
            (IF fcall.expires_delta = NoDelta THEN DefaultLifetime(fcall.kind)
             ELSE fcall.expires_delta[1])

(* C25: round trip.  A token made for a subject by the function of a kind and *)
(* given to the consumer of that kind before its exp yields that subject, and *)
(* its scope is that kind.                                                    *)

C25_RoundTrip ==
    (fcall.fn = "consume_token" /\ fcall.at < fcall.token.exp) =>
        /\ fcall.subject = fcall.sub
        /\ fcall.token.scope = fcall.kind

\* A refresh token with a lifetime of MaxDelta seconds has been decoded one
\* second before its exp.
C25_Witness ==
    /\ fcall.fn = "consume_token"
    /\ fcall.kind = "refresh_token"
    /\ fcall.token.exp = fcall.token.iat + MaxDelta
    /\ fcall.at = fcall.token.exp - 1
    /\ fcall.subject = fcall.sub

-----------------------------------------------------------------------------
(* C26: after signup the principal is unconfirmed and has no session.  The    *)
(* step of a signup answered 201 leaves the row of its email existing, not    *)
(* confirmed and without a refresh token; a login or a refresh answers 200    *)
(* only for a principal that is confirmed before that step; and a principal   *)
(* becomes confirmed only in the step of a confirmation request answered      *)
(* "Email confirmed" for its email.                                           *)

C26_Step(i) ==
    /\ (/\ Arrives(i)
        /\ req'[i].op = "signup"
        /\ req'[i].resp.status = HTTP_201_CREATED)
          => /\ users'[req'[i].email].exists
             /\ ~users'[req'[i].email].confirmed
             /\ users'[req'[i].email].refresh_token = NoToken
    /\ (Succeeded(i, "login")' \/ Succeeded(i, "refresh")')
          => /\ req[i].email \in Emails
             /\ req'[i].resp.access_token.sub = req[i].email
             /\ users[req[i].email].confirmed

C26_Confirms(e) ==
    (~users[e].confirmed /\ users'[e].confirmed)
        => \E i \in Slots :
              /\ Arrives(i)
              /\ Succeeded(i, "confirmed_email")'
              /\ req'[i].email = e
              /\ req'[i].resp.detail = "Email confirmed"

C26_UnconfirmedAfterSignup ==
    [][/\ \A i \in Slots : Acts(i) => C26_Step(i)
       /\ \A e \in Emails : C26_Confirms(e)]_vars

\* One principal has just signed up and a login with its password was
\* answered that the email is not confirmed, while the other principal,
\* confirmed by a confirmation request, holds a session.
C26_Witness ==
    \E e, f \in Emails, i \in Slots :
        /\ users[e].exists /\ ~users[e].confirmed
        /\ users[e].refresh_token = NoToken
        /\ Finished(i, "login") /\ req[i].email = e
        /\ EmailNotConfirmed(req[i].resp)
        /\ users[f].confirmed /\ users[f].refresh_token # NoToken

-----------------------------------------------------------------------------
(* C27: principal emails are unique.  Every signup that ends is answered 201  *)
(* or 409.  One answered 201 has put its row where the table held no row of   *)
(* that email and changed no other row; one answered 409 has changed nothing; *)
(* and a signup that arrives for an email in the table is answered 409.       *)
(* This covers signups for one email that have both looked the email up       *)
(* before either has created its row.                                         *)

C27_Step(i) ==
    /\ (req'[i].op = "signup" /\ Finished(i, "signup")') =>
          \/ /\ req'[i].resp.status = HTTP_201_CREATED
             /\ ~users[req'[i].email].exists
             /\ users' = [users EXCEPT ![req'[i].email] = req'[i].resp.user]
          \/ /\ req'[i].resp = HTTPException(HTTP_409_CONFLICT, "Account already exists")
             /\ users' = users
    /\ (Arrives(i) /\ req'[i].op = "signup" /\ users[req'[i].email].exists) =>
          /\ Finished(i, "signup")'
          /\ req'[i].resp.status = HTTP_409_CONFLICT

C27_EmailsUnique == [][\A i \in Slots : Acts(i) => C27_Step(i)]_vars

-----------------------------------------------------------------------------
\* Every row but the one of id is after the step what it was before.
OtherContactsUnchanged(id) ==
    \A k \in ContactIds \ {id} : contacts'[k] = contacts[k]

(* C28: repository remove.  A call of remove(id) that finds a contact with    *)
(* that id returns it, leaves no contact with that id and leaves every other  *)
(* contact as it was; a call that finds none returns None and leaves the      *)
(* table as it was.                                                           *)

C28_Step ==
    fcall'.fn = "remove" =>
        IF contacts[fcall'.id].exists
        THEN /\ fcall'.result = contacts[fcall'.id]
             /\ ~contacts'[fcall'.id].exists
             /\ OtherContactsUnchanged(fcall'.id)
        ELSE /\ fcall'.result = NoContact
             /\ contacts' = contacts

C28_Remove == [][C28_Step]_vars

\* remove has returned the contact it deleted while the other contact is
\* still in the table.
C28_Witness ==
    /\ fcall.fn = "remove"
    /\ fcall.result.exists
    /\ fcall.result.id = fcall.id
    /\ ~contacts[fcall.id].exists
    /\ \E k \in ContactIds \ {fcall.id} : contacts[k].exists

(* C29: repository update.  A call of update(id, body) that finds a contact   *)
(* with that id leaves it with the email, additional_data and birth_date of   *)
(* the body and with the id, first_name, last_name and phone_number it had,   *)
(* leaves every other contact as it was and returns the contact; a call that  *)
(* finds none returns None and leaves the table as it was.                    *)

C29_Step ==
    fcall'.fn = "update" =>
        LET id == fcall'.id
            body == fcall'.body
        IN IF contacts[id].exists
           THEN /\ contacts'[id].exists
                /\ contacts'[id].email = body.email
                /\ contacts'[id].additional_data = body.additional_data
                /\ contacts'[id].birth_date = body.birth_date
                /\ contacts'[id].id = contacts[id].id
                /\ contacts'[id].first_name = contacts[id].first_name
                /\ contacts'[id].last_name = contacts[id].last_name
                /\ contacts'[id].phone_number = contacts[id].phone_number
                /\ OtherContactsUnchanged(id)
                /\ fcall'.result = contacts'[id]
           ELSE /\ fcall'.result = NoContact
                /\ contacts' = contacts

C29_Update == [][C29_Step]_vars

\* update has returned a contact that has the email, note and birth date of a
\* body whose id, names and phone number are not its own.
C29_Witness ==
    /\ fcall.fn = "update"
    /\ fcall.result.exists
    /\ fcall.result = contacts[fcall.id]
    /\ fcall.result.email = fcall.body.email
    /\ fcall.result.birth_date = fcall.body.birth_date
    /\ fcall.result.additional_data = fcall.body.additional_data
    /\ fcall.result.id # fcall.body.id
    /\ fcall.result.first_name # fcall.body.first_name
    /\ fcall.result.last_name # fcall.body.last_name
    /\ fcall.result.phone_number # fcall.body.phone_number
    /\ \E k \in ContactIds \ {fcall.id} : contacts[k].exists

-----------------------------------------------------------------------------
\* The contact has the seven columns of the body.
SameColumns(contact, body) ==
    /\ contact.exists
    /\ contact.id = body.id
    /\ contact.first_name = body.first_name
    /\ contact.last_name = body.last_name
    /\ contact.email = body.email
    /\ contact.phone_number = body.phone_number
    /\ contact.birth_date = body.birth_date
    /\ contact.additional_data = body.additional_data

\* The number of contacts in a table.
Count(table) == Cardinality({k \in ContactIds : table[k].exists})

\* The call create(body) of this step has added one contact and returned it
\* with the columns of the body.
C30_Created ==
    /\ ~fcall'.raised
    /\ Count(contacts') = Count(contacts) + 1
    /\ SameColumns(fcall'.result, fcall'.body)
    /\ contacts'[fcall'.body.id] = fcall'.result

\* A get_contact_by_id of this step that follows a create which returned a
\* contact, for the id of that contact, returns that contact.
C30_Followed ==
    (/\ fcall.fn = "create" /\ fcall.result.exists
     /\ fcall'.fn = "get_contact_by_id" /\ fcall'.id = fcall.result.id)
        => fcall'.result = fcall.result

(* C30 as stated: every call of create(body) adds exactly one contact and     *)
(* returns it with the columns of the body, and a get_contact_by_id that      *)
(* follows returns the same contact.                                          *)

-----------------------------------------------------------------------------
\* The step is a request to a route that answers with a list, let through by
\* the dependencies of the route.
ListAnswered(op) ==
    /\ creq' # creq
    /\ contacts' = contacts
    /\ creq'.op = op
    /\ creq'.current_user.exists
    /\ RoleAccess(allowed_operation_get, creq'.current_user) = NoResp

(* C31: search by email.  A request to search_by_email that the dependencies  *)
(* let through is answered 404 "Not Found" when no contact has the email and  *)
(* otherwise 200 with the contacts that have it.                              *)

C31_Step ==
    ListAnswered("search_contacts_by_email") =>
        LET matching == {k \in ContactIds :
                           contacts[k].exists /\ contacts[k].email = creq'.email}
        IN IF matching = {}
           THEN creq'.resp = NotFound
           ELSE /\ creq'.resp.status = HTTP_200_OK
                /\ creq'.found = {contacts[k] : k \in matching}

C31_SearchByEmail == [][C31_Step]_vars

-----------------------------------------------------------------------------
\* The month and day of the birth date fall, in the year of today or the
\* next, on one of the days from today to today + BirthdayDays.
BirthdayWithin(birth_date, today) ==
    \E y \in {today[1], today[1] + 1} :
        LET birthday == <<y, birth_date[2], birth_date[3]>>
        IN /\ (birth_date[2] = 2 /\ birth_date[3] = 29) => IsLeap(y)
           /\ toordinal(birthday) >= toordinal(today)
           /\ toordinal(birthday) <= toordinal(today) + BirthdayDays

(* C32: birthdays.  A request to the birthdays route that the dependencies    *)
(* let through is answered with exactly the contacts whose birthday, by month *)
(* and day whatever the year of birth, falls within the days from today to    *)
(* today + 7.                                                                 *)

C32_Step ==
    ListAnswered("get_birthdays") =>
        /\ creq'.resp.status = HTTP_200_OK
        /\ creq'.found =
              {contacts[k] : k \in {j \in ContactIds :
                  /\ contacts[j].exists
                  /\ BirthdayWithin(contacts[j].birth_date, creq'.today)}}

C32_Birthdays == [][C32_Step]_vars

-----------------------------------------------------------------------------
(* C33: contact emails stay unique.  In every state reached by requests to    *)
(* the contacts routes no two contacts in the table have the same email.      *)

C33_ContactEmailsUnique ==
    \A j, k \in ContactIds :
        (j # k /\ contacts[j].exists /\ contacts[k].exists)
            => contacts[j].email # contacts[k].email

-----------------------------------------------------------------------------
(* C34: access tokens do not depend on the session.  A get_current_user with  *)
(* an access token that decodes at the time of the request is answered 200    *)
(* with the principal of the token when the cache or the table holds that     *)
(* principal, and 401 when neither does, whatever refresh token the table     *)
(* stores for it, the cleared one of a forced logout included.                *)

C34_Step(i) ==
    (/\ Arrives(i)
     /\ req'[i].op = "get_current_user"
     /\ req'[i].token.scope = "access_token"
     /\ jwt_decode_ok(req'[i].token, now))
        => LET email == req'[i].token.sub
           IN IF cache_get(email).exists \/ users[email].exists
              THEN /\ Succeeded(i, "get_current_user")'
                   /\ req'[i].resp.user.email = email
              ELSE /\ Finished(i, "get_current_user")'
                   /\ req'[i].resp = credentials_exception

C34_AccessTokenOutlivesSession ==
    [][\A i \in Slots : Acts(i) => C34_Step(i)]_vars

\* An access token made at time 0 has been accepted, at a later time, for a
\* principal whose row was read from the table with the refresh token
\* cleared by a mismatch.
C34_Witness ==
    \E i \in Slots :
        /\ Succeeded(i, "get_current_user")
        /\ req[i].token.iat = 0
        /\ now > 0
        /\ req[i].resp.user.exists
        /\ req[i].resp.user.confirmed
        /\ req[i].resp.user.refresh_token = NoToken
        /\ users[req[i].email].refresh_token = NoToken

-----------------------------------------------------------------------------
(* C35: login tests the confirmed flag before the password.  A login for a    *)
(* principal that exists and is not confirmed ends with the                   *)
(* email-not-confirmed response, whatever the password, and verify_password   *)
(* is not among the calls it made.                                            *)

C35_Step(i) ==
    (/\ Arrives(i)
     /\ req'[i].op = "login"
     /\ users[req'[i].email].exists
     /\ ~users[req'[i].email].confirmed)
        => /\ Finished(i, "login")'
           /\ EmailNotConfirmed(req'[i].resp)
           /\ \A k \in 1..Len(req'[i].log) : req'[i].log[k] # "verify_password"

C35_ConfirmedBeforePassword ==
    [][\A i \in Slots : Acts(i) => C35_Step(i)]_vars

\* A login with a wrong password for a principal that is not confirmed has
\* ended with the email-not-confirmed response after the one call of
\* get_user_by_email.
C35_Witness ==
    \E i \in Slots :
        /\ Finished(i, "login")
        /\ users[req[i].email].exists
        /\ ~users[req[i].email].confirmed
        /\ users[req[i].email].password # get_password_hash(req[i].password)
        /\ EmailNotConfirmed(req[i].resp)
        /\ req[i].log = <<"get_user_by_email">>

-----------------------------------------------------------------------------
(* C36: healthchecker.  The answer is the welcome message when the probe      *)
(* query yields a row, 500 "Database is not configured correctly" when it     *)
(* yields no row, and 500 "Error connecting to the database" when it raises.  *)

C36_Healthchecker ==
    creq.op = "healthchecker" =>
        CASE creq.probe = "row" ->
               /\ creq.resp.status = HTTP_200_OK
               /\ creq.message = "Welcome to FastAPI!"
          [] creq.probe = "none" ->
               creq.resp = HTTPException(HTTP_500_INTERNAL_SERVER_ERROR,
                                         "Database is not configured correctly")
          [] creq.probe = "raises" ->
               creq.resp = HTTPException(HTTP_500_INTERNAL_SERVER_ERROR,
                                         "Error connecting to the database")

====
